---- MODULE Spec2Model ----
(***************************************************************************)
(* FortuneBot (src/main.py): one invocation runs a shell command, renders  *)
(* its output into a PNG and uploads it with sendPhoto.  The model follows *)
(* one invocation from its entry point (main, or a directly constructed    *)
(* bot whose run_once is called) to the exit code or the uncaught error.   *)
(* Text is modelled by TLA+ strings (Len, Head, Tail, SubSeq, \o).         *)
(***************************************************************************)
EXTENDS Integers, Sequences, FiniteSets, TLC

VARIABLES pc, entry, env, bot, ran, image_source, clock, caption, render,
          upload, result, events

vars == <<pc, entry, env, bot, ran, image_source, clock, caption, render,
          upload, result, events>>

-----------------------------------------------------------------------------
(* Bounds of the model *)

MaxStdoutLen == 2
MaxPadding == 1
MaxClockSteps == 1

(* Program constants *)

DefaultPadding == 12
CaptionLimit == 1024

-----------------------------------------------------------------------------
(* Generic helpers *)

Max(a, b) == IF a > b THEN a ELSE b

Min(a, b) == IF a < b THEN a ELSE b

RECURSIVE StringsUpTo(_, _)
StringsUpTo(alphabet, n) ==
    IF n = 0 THEN {""}
    ELSE LET shorter == StringsUpTo(alphabet, n - 1)
         IN  shorter \cup {s \o c : s \in shorter, c \in alphabet}

(* Python optionals: None, or a value *)
None == [some |-> FALSE]

Some(v) == [some |-> TRUE, v |-> v]

(* Python truthiness of an Optional[str]: None and "" are falsy *)
TruthyStr(o) == o.some /\ o.v # ""

-----------------------------------------------------------------------------
(* Exception classes and isinstance.  Parents(c) are the direct bases.     *)

Parents(c) ==
    CASE c = "HTTPError"               -> {"RequestException"}
      [] c = "ConnectionError"         -> {"RequestException"}
      [] c = "RequestsJSONDecodeError" -> {"RequestException", "ValueError"}
      [] c = "RequestException"        -> {"OSError"}
      [] c = "CustomRequestException"  -> {"Exception"}
      [] c = "OSError"                 -> {"Exception"}
      [] c = "UnicodeEncodeError"      -> {"ValueError"}
      [] c = "ValueError"              -> {"Exception"}
      [] c = "AttributeError"          -> {"Exception"}
      [] c = "RuntimeError"            -> {"Exception"}
      [] c = "SystemError"             -> {"Exception"}
      [] c = "TimeoutExpired"          -> {"Exception"}
      [] OTHER                         -> {}

RECURSIVE IsInstance(_, _)
IsInstance(exc, cls) ==
    \/ exc = cls
    \/ \E p \in Parents(exc) : IsInstance(p, cls)

-----------------------------------------------------------------------------
(* Outcomes of one invocation *)

NoResult == [kind |-> "none"]

Return(value) == [kind |-> "return", value |-> value]

Raise(exc) == [kind |-> "raise", exc |-> exc]

-----------------------------------------------------------------------------
(* Text Source: get_output *)

StdoutChars == {"a", "#", "\n"}

ExtraStdout == {"a\r\n#", " \n\n"}

Stdouts == StringsUpTo(StdoutChars, MaxStdoutLen) \cup ExtraStdout

Stderrs == {"", "oops\n"}

(* What the runner does: it raises, or returns a process object whose      *)
(* stdout and stderr are strings or None.                                   *)
RunnerOutcomes ==
    {[kind |-> "raise", exc |-> e] : e \in {"TimeoutExpired", "RuntimeError"}}
    \cup {[kind |-> "process", stdout |-> Some(s), stderr |-> Some("")] :
            s \in Stdouts \ {""}}
    \cup {[kind |-> "process", stdout |-> o, stderr |-> e] :
            o \in {None, Some("")},
            e \in {None} \cup {Some(s) : s \in Stderrs}}

(* str.rstrip("\n").  The faulty variant strips one newline only. *)
RStripOneNewline(s) ==
    IF s # "" /\ SubSeq(s, Len(s), Len(s)) = "\n"
    THEN SubSeq(s, 1, Len(s) - 1)
    ELSE s

RECURSIVE RStripNewlines(_)
RStripNewlines(s) ==
    IF s # "" /\ SubSeq(s, Len(s), Len(s)) = "\n"
    THEN RStripNewlines(SubSeq(s, 1, Len(s) - 1))
    ELSE s

(* get_output: the value it returns, or the error it lets through *)
get_output(outcome) ==
    IF outcome.kind = "raise"
    THEN IF IsInstance(outcome.exc, "TimeoutExpired")
         THEN Return("(command timed out)")
         ELSE Raise(outcome.exc)
    ELSE IF TruthyStr(outcome.stdout)
         THEN Return(RStripNewlines(outcome.stdout.v))
         ELSE Return("(no stdout)\n\nstderr:\n"
                     \o (IF TruthyStr(outcome.stderr)
                         THEN outcome.stderr.v ELSE "<none>"))

-----------------------------------------------------------------------------
(* Caption (run_once): int(), str() of an int, html.escape, slicing        *)

(* The injected clock returns a float; the model counts it in tenths of a  *)
(* second.  int() truncates toward zero.                                   *)
ClockTenths == {15 * k : k \in (0 - MaxClockSteps)..MaxClockSteps}
               \cup {12345678}

IntOfFloat(tenths) ==
    IF tenths >= 0 THEN tenths \div 10 ELSE 0 - ((0 - tenths) \div 10)

DigitChar(d) == SubSeq("0123456789", d + 1, d + 1)

RECURSIVE NatToStr(_)
NatToStr(n) ==
    IF n < 10 THEN DigitChar(n) ELSE NatToStr(n \div 10) \o DigitChar(n % 10)

IntToStr(n) == IF n < 0 THEN "-" \o NatToStr(0 - n) ELSE NatToStr(n)

(* html.escape(s) with quote=True *)
EscapeChar(c) ==
    CASE c = "&"  -> "&amp;"
      [] c = "<"  -> "&lt;"
      [] c = ">"  -> "&gt;"
      [] c = "\"" -> "&quot;"
      [] c = "'"  -> "&#x27;"
      [] OTHER    -> c

RECURSIVE HtmlEscape(_)
HtmlEscape(s) ==
    IF s = "" THEN "" ELSE EscapeChar(Head(s)) \o HtmlEscape(Tail(s))

(* s[:n] *)
Truncate(s, n) == SubSeq(s, 1, Min(Len(s), n))

(* Lines 172-174 of run_once; image_source is in scope there.  The faulty  *)
(* variant appends the command output to the raw caption.                  *)
RunOnceCaptionFromOutput(epochInt, source) ==
    Truncate(HtmlEscape("Your fortune cookie for the day. Epoch time: "
                        \o IntToStr(epochInt) \o source), CaptionLimit)

RunOnceCaption(epochInt, source) ==
    Truncate(HtmlEscape("Your fortune cookie for the day. Epoch time: "
                        \o IntToStr(epochInt)), CaptionLimit)

-----------------------------------------------------------------------------
(* Renderer: _measure_line and render_image                                *)

(* str.splitlines(): breaks at \n, \r and \r\n; no empty last line *)
RECURSIVE SplitFrom(_, _)
SplitFrom(s, cur) ==
    IF s = "" THEN (IF cur = "" THEN <<>> ELSE <<cur>>)
    ELSE IF Len(s) >= 2 /\ SubSeq(s, 1, 2) = "\r\n"
         THEN <<cur>> \o SplitFrom(SubSeq(s, 3, Len(s)), "")
    ELSE IF Head(s) \in {"\n", "\r"}
         THEN <<cur>> \o SplitFrom(Tail(s), "")
    ELSE SplitFrom(Tail(s), cur \o Head(s))

SplitLines(s) == SplitFrom(s, "")

(* The font: a monospace face.  Every glyph advances 2 pixels; a full      *)
(* block fills its cell from the top, a space has no ink, any other glyph  *)
(* leaves one blank row above its ink.                                     *)
GlyphBox(c) ==
    CASE c = "#" -> [ink |-> TRUE, top |-> 0, bottom |-> 3]
      [] c = " " -> [ink |-> FALSE, top |-> 0, bottom |-> 0]
      [] OTHER   -> [ink |-> TRUE, top |-> 1, bottom |-> 3]

RECURSIVE InkTop(_)
InkTop(line) ==
    IF line = "" THEN 3
    ELSE LET g == GlyphBox(Head(line))
         IN  IF g.ink THEN Min(g.top, InkTop(Tail(line)))
             ELSE InkTop(Tail(line))

RECURSIVE InkBottom(_)
InkBottom(line) ==
    IF line = "" THEN 0
    ELSE LET g == GlyphBox(Head(line))
         IN  IF g.ink THEN Max(g.bottom, InkBottom(Tail(line)))
             ELSE InkBottom(Tail(line))

(* Bounding box <<x0, y0, x1, y1>> of a line whose anchor is at (x, y) *)
TextBBox(x, y, line) ==
    IF InkBottom(line) = 0
    THEN <<x, y, x + 2 * Len(line), y>>
    ELSE <<x, y + InkTop(line), x + 2 * Len(line), y + InkBottom(line)>>

(* Each of the three measuring interfaces either works or raises *)
TierNames == <<"textbbox", "getbbox", "getmask">>

TierOutcomes == {"ok", "AttributeError", "UnicodeEncodeError", "RuntimeError"}

Tiers == [1..3 -> TierOutcomes]

BBoxSize(line) ==
    LET b == TextBBox(0, 0, line) IN <<b[3] - b[1], b[4] - b[2]>>

(* _measure_line, from tier k on.  tried lists the interfaces called and   *)
(* what each did.  The faulty variant falls through on any error.          *)
RECURSIVE MeasureFromAnyError(_, _, _, _)
MeasureFromAnyError(tiers, line, k, tried) ==
    LET now == Append(tried, [tier |-> TierNames[k], outcome |-> tiers[k]])
    IN  IF tiers[k] = "ok"
        THEN [kind |-> "return", size |-> BBoxSize(line), line |-> line,
              tried |-> now]
        ELSE IF k < 3
        THEN MeasureFromAnyError(tiers, line, k + 1, now)
        ELSE [kind |-> "raise", exc |-> tiers[k], line |-> line,
              tried |-> now]

RECURSIVE MeasureFrom(_, _, _, _)
MeasureFrom(tiers, line, k, tried) ==
    LET now == Append(tried, [tier |-> TierNames[k], outcome |-> tiers[k]])
    IN  IF tiers[k] = "ok"
        THEN [kind |-> "return", size |-> BBoxSize(line), line |-> line,
              tried |-> now]
        ELSE IF k < 3 /\ IsInstance(tiers[k], "AttributeError")
        THEN MeasureFrom(tiers, line, k + 1, now)
        ELSE [kind |-> "raise", exc |-> tiers[k], line |-> line,
              tried |-> now]

measure_line(tiers, line) ==
    MeasureFrom(tiers, IF line = "" THEN " " ELSE line, 1, <<>>)

RECURSIVE MeasurePass(_, _, _)
MeasurePass(tiers, lines, i) ==
    IF i > Len(lines) THEN <<>>
    ELSE LET m == measure_line(tiers, lines[i])
         IN  IF m.kind = "raise" THEN <<m>>
             ELSE <<m>> \o MeasurePass(tiers, lines, i + 1)

(* the running maxima of the measurement pass, both starting at 0 *)
RECURSIVE MaxOf(_, _, _)
MaxOf(log, axis, i) ==
    IF i = 0 THEN 0
    ELSE LET rest == MaxOf(log, axis, i - 1)
         IN  IF log[i].size[axis] > rest THEN log[i].size[axis] ELSE rest

(* What img.save can do: write the PNG, or fail with an I/O error *)
EncodeOutcomes == {"ok", "OSError"}

(* Where the first line is drawn (lines 137 and 139).  The faulty variant  *)
(* draws from the canvas origin.                                           *)
text_origin_zero(padding) == 0

text_origin(padding) == padding

(* Line 131.  The faulty variant forgets the one-pixel minimum.            *)
canvas_height_no_minimum(max_h, n, padding) == max_h * n + padding * 2

canvas_height(max_h, n, padding) == Max(1, max_h * n) + padding * 2

NoRender == [result |-> NoResult]

(* render_image: its result and what it measured, sized and drew *)
render_image(text, padding, tiers, encode) ==
    LET split  == SplitLines(text)
        lines  == IF split = <<>> THEN <<"">> ELSE split
        log    == MeasurePass(tiers, lines, 1)
        last   == log[Len(log)]
        max_w  == MaxOf(log, 1, Len(log))
        max_h  == MaxOf(log, 2, Len(log))
        img_w  == max_w + padding * 2
        img_h  == canvas_height(max_h, Len(lines), padding)
        draws  == [i \in 1..Len(lines) |->
                     [x |-> text_origin(padding),
                      y |-> text_origin(padding) + (i - 1) * max_h,
                      line |-> lines[i]]]
        layout == [lines |-> lines, measured |-> log, max_w |-> max_w,
                   max_h |-> max_h, img_w |-> img_w, img_h |-> img_h]
    IN  IF last.kind = "raise"
        THEN [result |-> Raise(last.exc), lines |-> lines, measured |-> log]
        ELSE IF encode # "ok"
        THEN [result |-> Raise(encode), draws |-> draws] @@ layout
        ELSE [result |-> Return("png"), draws |-> draws] @@ layout

(* The colour of pixel (x, y) of a rendered canvas: green where the ink of *)
(* a drawn line falls, the black background elsewhere.                     *)
InkCovers(d, x, y) ==
    LET b == TextBBox(d.x, d.y, d.line)
    IN  b[1] <= x /\ x < b[3] /\ b[2] <= y /\ y < b[4]

PixelAt(r, x, y) ==
    IF \E i \in 1..Len(r.draws) : InkCovers(r.draws[i], x, y)
    THEN "green" ELSE "black"

-----------------------------------------------------------------------------
(* Publisher: post_photo, and the transport it is given                    *)

(* The injected requests module: the requests library itself, a test       *)
(* double without a RequestException attribute, or a client that names its *)
(* own RequestException class.                                             *)
RequestsModules == {"requests", "fake", "custom"}

(* getattr(self.requests, "RequestException", requests.RequestException).  *)
(* The faulty variant ignores the injected module's attribute.             *)
req_exc_default_only(module) == "RequestException"

req_exc(module) ==
    IF module = "custom" THEN "CustomRequestException" ELSE "RequestException"

Statuses == {200, 500, 503}

OkFlags == {"true", "false", "null", "absent"}

Bodies == {[kind |-> "object", ok |-> f] : f \in OkFlags}
          \cup {[kind |-> "invalid", exc |-> e] :
                  e \in {"RequestsJSONDecodeError", "ValueError"}}

TransportOutcomes ==
    {[kind |-> "raise", exc |-> e] :
        e \in {"ConnectionError", "CustomRequestException", "RuntimeError"}}
    \cup {[kind |-> "response", status |-> 200, body |-> b] : b \in Bodies}
    \cup {[kind |-> "response", status |-> st,
           body |-> [kind |-> "object", ok |-> "false"]] :
            st \in Statuses \ {200}}

(* raise_for_status of the response: TRUE when it raises HTTPError *)
raise_for_status(status) == ~(200 <= status /\ status < 300)

(* Python truthiness of resp.get("ok") *)
TruthyFlag(f) == f = "true"

(* The form fields post_photo sends *)
post_data(chat_id, cap) ==
    IF cap # ""
    THEN [chat_id |-> chat_id, caption |-> Truncate(cap, CaptionLimit),
          parse_mode |-> "HTML"]
    ELSE [chat_id |-> chat_id]

(* post_photo after the transport has answered: parsed tells whether       *)
(* r.json() was called.                                                    *)
post_photo(outcome) ==
    IF outcome.kind = "raise"
    THEN [result |-> Raise(outcome.exc), parsed |-> FALSE]
    ELSE IF raise_for_status(outcome.status)
    THEN [result |-> Raise("HTTPError"), parsed |-> FALSE]
    ELSE IF outcome.body.kind = "invalid"
    THEN [result |-> Raise(outcome.body.exc), parsed |-> TRUE]
    ELSE [result |-> Return(outcome.body), parsed |-> TRUE]

-----------------------------------------------------------------------------
(* Orchestrator: main and run_once                                         *)

EnvValues == {None, Some(""), Some("tok")}

Paddings == 0..MaxPadding \cup {DefaultPadding}

FortuneBot(token, chat_id, padding, module) ==
    [token |-> token, chat_id |-> chat_id, padding |-> padding,
     requests |-> module]

NoBot == [constructed |-> FALSE]

(* main's test "not token or not chat".  The faulty variant requires both  *)
(* to be missing.                                                          *)
config_missing_both(token, chat) == ~TruthyStr(token) /\ ~TruthyStr(chat)

config_missing(token, chat) == ~TruthyStr(token) \/ ~TruthyStr(chat)

(* run_once's handler around render_image: the exit of a failed render.    *)
(* The faulty variant catches I/O errors only.                             *)
render_failure_io_only(exc) ==
    IF IsInstance(exc, "OSError") THEN Return(4) ELSE Raise(exc)

render_failure(exc) ==
    IF IsInstance(exc, "OSError") \/ IsInstance(exc, "ValueError")
    THEN Return(4) ELSE Raise(exc)

(* run_once's reading of the parsed response.  The faulty variant tests    *)
(* the presence of the flag instead of its value.                          *)
response_exit_if_present(resp) ==
    IF resp.ok # "absent" THEN Return(0) ELSE Return(3)

response_exit(resp) ==
    IF TruthyFlag(resp.ok) THEN Return(0) ELSE Return(3)

(* run_once's handler around the upload.  The faulty variant maps only     *)
(* connection failures to exit code 5.                                     *)
upload_failure_connection_only(module, exc) ==
    IF IsInstance(exc, "ConnectionError") THEN Return(5) ELSE Raise(exc)

upload_failure(module, exc) ==
    IF IsInstance(exc, req_exc(module)) THEN Return(5) ELSE Raise(exc)

NoUpload == [calls |-> <<>>, parsed |-> FALSE, outcome |-> NoResult]

(* str() of an Optional[str], as an f-string formats it *)
StrOf(o) == IF o.some THEN o.v ELSE "None"

Init ==
    /\ pc = "start"
    /\ entry = "none"
    /\ env = [token |-> None, chat |-> None]
    /\ bot = NoBot
    /\ ran = [kind |-> "none"]
    /\ image_source = ""
    /\ clock = 0
    /\ caption = ""
    /\ render = NoRender
    /\ upload = NoUpload
    /\ result = NoResult
    /\ events = <<>>

(* main(): read the two environment variables, then run a default bot *)
Main ==
    /\ pc = "start"
    /\ \E token \in EnvValues, chat \in EnvValues :
         /\ env' = [token |-> token, chat |-> chat]
         /\ IF config_missing(token, chat)
            THEN /\ result' = Return(2)
                 /\ pc' = "done"
                 /\ bot' = bot
            ELSE /\ result' = result
                 /\ pc' = "get_output"
                 /\ bot' = FortuneBot(token, chat, DefaultPadding,
                                      "requests")
    /\ entry' = "main"
    /\ events' = Append(events, "main")
    /\ UNCHANGED <<ran, image_source, clock, caption, render, upload>>

(* A caller constructs a bot with its own padding and transport and calls  *)
(* run_once.                                                               *)
Construct ==
    /\ pc = "start"
    /\ \E padding \in Paddings, module \in RequestsModules :
         bot' = FortuneBot(Some("tok"), Some("@c"), padding, module)
    /\ entry' = "run_once"
    /\ pc' = "get_output"
    /\ UNCHANGED <<env, ran, image_source, clock, caption, render, upload,
                   result, events>>

(* run_once, line 170 *)
GetOutput ==
    /\ pc = "get_output"
    /\ \E outcome \in RunnerOutcomes :
         LET r == get_output(outcome)
         IN  /\ ran' = outcome
             /\ IF r.kind = "raise"
                THEN /\ result' = r
                     /\ pc' = "done"
                     /\ image_source' = image_source
                     /\ events' = Append(events, "runner")
                ELSE /\ result' = result
                     /\ pc' = "caption"
                     /\ image_source' = r.value
                     /\ events' = events \o <<"runner", "get_output">>
    /\ UNCHANGED <<entry, env, bot, clock, caption, render, upload>>

(* run_once, lines 172-174 *)
ComputeCaption ==
    /\ pc = "caption"
    /\ \E t \in ClockTenths :
         /\ clock' = t
         /\ caption' = RunOnceCaption(IntOfFloat(t), image_source)
    /\ pc' = "render"
    /\ UNCHANGED <<entry, env, bot, ran, image_source, render, upload,
                   result, events>>

(* run_once, lines 176-180 *)
RenderImage ==
    /\ pc = "render"
    /\ \E tiers \in Tiers, encode \in EncodeOutcomes :
         LET r == render_image(image_source, bot.padding, tiers, encode)
         IN  /\ render' = r
             /\ IF r.result.kind = "raise"
                THEN /\ result' = render_failure(r.result.exc)
                     /\ pc' = "done"
                     /\ events' = Append(events, "render_image")
                ELSE /\ result' = result
                     /\ pc' = "post"
                     /\ events' = events \o <<"render_image", "rendered">>
    /\ UNCHANGED <<entry, env, bot, ran, image_source, clock, caption,
                   upload>>

(* run_once, lines 182-194 *)
PostPhoto ==
    /\ pc = "post"
    /\ \E outcome \in TransportOutcomes :
         LET r == post_photo(outcome)
             call == [url |-> "https://api.telegram.org/bot"
                              \o StrOf(bot.token) \o "/sendPhoto",
                      data |-> post_data(StrOf(bot.chat_id), caption),
                      photo |-> <<render.img_w, render.img_h>>,
                      answer |-> outcome]
         IN  /\ upload' = [calls |-> Append(upload.calls, call),
                           parsed |-> r.parsed, outcome |-> r.result]
             /\ result' = IF r.result.kind = "raise"
                          THEN upload_failure(bot.requests, r.result.exc)
                          ELSE response_exit(r.result.value)
    /\ pc' = "done"
    /\ events' = Append(events, "post")
    /\ UNCHANGED <<entry, env, bot, ran, image_source, clock, caption,
                   render>>

Next ==
    \/ Main
    \/ Construct
    \/ GetOutput
    \/ ComputeCaption
    \/ RenderImage
    \/ PostPhoto

Spec == Init /\ [][Next]_vars

-----------------------------------------------------------------------------
(* What the properties below observe *)

Done == pc = "done"

Uploaded == upload.calls # <<>>

Answer == upload.calls[1].answer

ParsedResponse ==
    Uploaded /\ upload.parsed /\ upload.outcome.kind = "return"

(* The class the caller means by a network-layer error: the injected       *)
(* module's own RequestException, else the requests library's.             *)
TransportRequestException ==
    IF bot.requests = "custom" THEN "CustomRequestException"
    ELSE "RequestException"

NetworkLayerError(exc) ==
    exc \in {TransportRequestException}
            \cup (IF TransportRequestException = "RequestException"
                  THEN {"HTTPError", "ConnectionError",
                        "RequestsJSONDecodeError"}
                  ELSE {})

RenderReturned == render.result.kind = "return"

LaidOut == "img_w" \in DOMAIN render

C2_NetworkErrorExit ==
    Uploaded =>
        /\ Len(upload.calls) = 1
        /\ (Answer.kind = "raise" /\ NetworkLayerError(Answer.exc))
             => result = Return(5)
        /\ (upload.outcome.kind = "raise"
            /\ ~NetworkLayerError(upload.outcome.exc))
             => result = Raise(upload.outcome.exc)

C2_Witness ==
    /\ Uploaded
    /\ bot.requests = "custom"
    /\ Answer.kind = "raise"
    /\ Answer.exc = "CustomRequestException"
    /\ result = Return(5)

(* C3 as stated: a non-2xx status makes post_photo raise an HTTP error     *)
(* before the body is parsed, and run_once lets it propagate, so the run   *)
(* does not end with exit code 5.                                          *)
C3_HttpErrorPropagates ==
    (Uploaded /\ Answer.kind = "response"
     /\ ~(200 <= Answer.status /\ Answer.status < 300))
        => /\ upload.outcome = Raise("HTTPError")
           /\ ~upload.parsed
           /\ result = Raise("HTTPError")

(* C3: an HTTP error status makes post_photo raise an HTTP error before    *)
(* the body is parsed; run_once returns 5 after the single upload attempt  *)
(* when the HTTP error is a network-layer error of the transport, and lets *)
(* it propagate only otherwise.                                            *)
C3_HttpErrorExit ==
    (Uploaded /\ Answer.kind = "response"
     /\ 400 <= Answer.status /\ Answer.status < 600)
        => /\ upload.outcome = Raise("HTTPError")
           /\ ~upload.parsed
           /\ Len(upload.calls) = 1
           /\ result = IF NetworkLayerError("HTTPError")
                       THEN Return(5) ELSE Raise("HTTPError")

C3_Witness ==
    /\ Uploaded
    /\ Answer.kind = "response"
    /\ Answer.status = 500
    /\ upload.outcome = Raise("HTTPError")
    /\ result = Return(5)

(* C4: when main finds either configuration value absent it returns 2 and  *)
(* runs no command, renders nothing and uploads nothing; it constructs the *)
(* bot and enters run_once only when both values are present.              *)
C4_MissingConfigExit ==
    entry = "main" =>
        /\ (~env.token.some \/ ~env.chat.some)
             => /\ result = Return(2)
                /\ Done
                /\ events = <<"main">>
                /\ ran.kind = "none"
                /\ render = NoRender
                /\ ~Uploaded
        /\ (bot # NoBot \/ Len(events) > 1)
             => env.token.some /\ env.chat.some

C4_Witness ==
    /\ entry = "main"
    /\ env.token = Some("tok")
    /\ env.chat = None
    /\ result = Return(2)

(* C5: a render that fails with an I/O, encoding or value error ends the   *)
(* run with 4 and without an upload; an upload happens only after          *)
(* render_image has returned, which happens only after get_output has      *)
(* returned.                                                               *)
C5_RenderFailureExit ==
    /\ (render.result.kind = "raise"
        /\ render.result.exc \in {"OSError", "ValueError",
                                  "UnicodeEncodeError"})
         => result = Return(4) /\ Done /\ ~Uploaded
    /\ Uploaded => RenderReturned
    /\ \A i \in 1..Len(events) :
         /\ events[i] = "post"
              => \E j \in 1..(i - 1) : events[j] = "rendered"
         /\ events[i] \in {"render_image", "rendered"}
              => \E j \in 1..(i - 1) : events[j] = "get_output"

C5_Witness ==
    /\ render.result = Raise("UnicodeEncodeError")
    /\ ~Uploaded
    /\ result = Return(4)
    /\ events = <<"runner", "get_output", "render_image">>

(* C6: the caption sent with the upload is the HTML-escaped message        *)
(* "Your fortune cookie for the day. Epoch time: <integer seconds of the   *)
(* clock>" cut to 1024 characters, whatever the command output was.        *)
ExpectedCaption(tenths) ==
    LET secs == IF tenths >= 0 THEN tenths \div 10
                ELSE 0 - ((0 - tenths) \div 10)
        raw  == "Your fortune cookie for the day. Epoch time: "
                \o (IF tenths <= 0 - 10 THEN "-" ELSE "") \o
                NatToStr(IF secs < 0 THEN 0 - secs ELSE secs)
        esc  == HtmlEscape(raw)
    IN  IF Len(esc) > 1024 THEN SubSeq(esc, 1, 1024) ELSE esc

C6_CaptionFromClockOnly ==
    \A i \in 1..Len(upload.calls) :
        /\ "caption" \in DOMAIN upload.calls[i].data
        /\ upload.calls[i].data.caption = ExpectedCaption(clock)

C6_Witness ==
    /\ Uploaded
    /\ image_source = "a#"
    /\ clock = 0 - 15
    /\ upload.calls[1].data.caption
         = "Your fortune cookie for the day. Epoch time: -1"

(* C7: get_output's result follows from what the runner did: a timeout      *)
(* gives "(command timed out)" without raising, non-empty stdout is        *)
(* returned without its trailing newlines, and empty stdout gives the      *)
(* marker followed by stderr, or by a placeholder when stderr is empty.    *)
Newlines(k) == SubSeq("\n\n\n\n\n\n\n\n", 1, k)

EndsWithNewline(str) == str # "" /\ SubSeq(str, Len(str), Len(str)) = "\n"

C7_OutputFromRunner ==
    /\ (ran.kind = "raise" /\ ran.exc = "TimeoutExpired")
         => /\ image_source = "(command timed out)"
            /\ \E i \in 1..Len(events) : events[i] = "get_output"
    /\ (ran.kind = "process" /\ ran.stdout.some /\ ran.stdout.v # "")
         => /\ ~EndsWithNewline(image_source)
            /\ \E k \in 0..Len(ran.stdout.v) :
                 ran.stdout.v = image_source \o Newlines(k)
    /\ (ran.kind = "process" /\ (~ran.stdout.some \/ ran.stdout.v = ""))
         => image_source
              = "(no stdout)\n\nstderr:\n"
                \o (IF ran.stderr.some /\ ran.stderr.v # ""
                    THEN ran.stderr.v ELSE "<none>")

C7_Witness ==
    /\ ran.kind = "process"
    /\ ran.stdout = Some("a\n")
    /\ image_source = "a"
    /\ pc = "caption"

(* C8 as stated: for every text and every configured padding the pixel at  *)
(* the canvas origin is black.                                             *)
C8_OriginBlack ==
    (RenderReturned /\ render.img_w >= 1 /\ render.img_h >= 1)
        => PixelAt(render, 0, 0) = "black"

(* C8: for every text and every configured padding of at least one pixel   *)
(* the pixel at the canvas origin is black: the origin lies in the padding *)
(* margin, above and left of every drawn line.                             *)
C8_OriginBlackWithPadding ==
    (RenderReturned /\ bot.padding >= 1)
        => /\ render.img_w >= 1 /\ render.img_h >= 1
           /\ PixelAt(render, 0, 0) = "black"
           /\ \A i \in 1..Len(render.draws) :
                render.draws[i].x >= 1 /\ render.draws[i].y >= 1

C8_Witness ==
    /\ RenderReturned
    /\ bot.padding = 1
    /\ image_source = "#"
    /\ PixelAt(render, 1, 1) = "green"
    /\ PixelAt(render, 0, 0) = "black"

(* C9: every line is measured by trying textbbox, getbbox and getmask in   *)
(* that order; a later interface is tried only after every earlier one     *)
(* raised AttributeError, the first one that works gives the size, any     *)
(* other error ends the measurement, and an empty line is measured as a    *)
(* single space.                                                           *)
C9_TieredMeasurement ==
    "measured" \in DOMAIN render =>
        \A i \in 1..Len(render.measured) :
            LET m == render.measured[i]
                n == Len(m.tried)
            IN  /\ m.line = (IF render.lines[i] = "" THEN " "
                             ELSE render.lines[i])
                /\ n \in 1..3
                /\ \A k \in 1..n :
                     m.tried[k].tier
                       = <<"textbbox", "getbbox", "getmask">>[k]
                /\ \A k \in 1..(n - 1) :
                     m.tried[k].outcome = "AttributeError"
                /\ IF m.tried[n].outcome = "ok"
                   THEN m.kind = "return"
                   ELSE /\ m.kind = "raise"
                        /\ m.exc = m.tried[n].outcome
                        /\ render.result = Raise(m.exc)
                        /\ i = Len(render.measured)
                        /\ n < 3 => m.exc # "AttributeError"

C9_Witness ==
    /\ "measured" \in DOMAIN render
    /\ render.lines = <<"", "a">>
    /\ Len(render.measured) = 1
    /\ render.measured[1].line = " "
    /\ Len(render.measured[1].tried) = 2
    /\ render.result = Raise("RuntimeError")

(* C10: with n lines (one when the text yields none), maxW and maxH the    *)
(* largest measured width and height, the canvas is maxW + 2*padding wide  *)
(* and max(1, maxH*n) + 2*padding high, line i is drawn at x = padding,    *)
(* y = padding + i*maxH, and with non-negative padding every line's slot   *)
(* ends at or above the canvas height minus the padding.                   *)
C10_UniformLayout ==
    LaidOut =>
        LET n    == Len(render.lines)
            p    == bot.padding
            maxW == render.max_w
            maxH == render.max_h
        IN  /\ n >= 1
            /\ image_source = "" => render.lines = <<"">>
            /\ Len(render.measured) = n
            /\ \A i \in 1..n : /\ render.measured[i].size[1] <= maxW
                               /\ render.measured[i].size[2] <= maxH
            /\ \E i \in 1..n : render.measured[i].size[1] = maxW
            /\ \E i \in 1..n : render.measured[i].size[2] = maxH
            /\ render.img_w = maxW + 2 * p
            /\ render.img_h = (IF maxH * n >= 1 THEN maxH * n ELSE 1) + 2 * p
            /\ "draws" \in DOMAIN render =>
                 /\ Len(render.draws) = n
                 /\ \A i \in 1..n :
                      /\ render.draws[i].x = p
                      /\ render.draws[i].y = p + (i - 1) * maxH
                      /\ render.draws[i].line = render.lines[i]
                      /\ p >= 0 =>
                           render.draws[i].y + maxH <= render.img_h - p

C10_Witness ==
    /\ RenderReturned
    /\ render.lines = <<"a", "#">>
    /\ render.max_h = 3
    /\ render.measured[1].size = <<2, 2>>
    /\ render.draws[2].y = bot.padding + 3
    /\ bot.padding = 12

====
